---- MODULE Spec2Model ----
(***************************************************************************)
(* A model of orbiter/objects/project.py: the OrbiterProject container,    *)
(* its add_* operations (wrapped by pydantic's validate_call), the         *)
(* recursive walker _add_recursively of add_dags, and render.              *)
(*                                                                         *)
(* Python objects are records with a "type" field (the class).  An object  *)
(* that has a __dict__ whose values are other objects carries it as the    *)
(* field "dict": an ordered sequence of [name, value] pairs.  Entities     *)
(* whose attributes are all primitives are flat records.  Containers       *)
(* (list, set, dict) carry their values in "items"; they have no __dict__. *)
(***************************************************************************)
EXTENDS Integers, Sequences, FiniteSets, TLC

VARIABLES dags, requirements, pools, connections, variables, env_vars, includes,
          files, dirs, last, hist, nops, other, ret

vars == <<dags, requirements, pools, connections, variables, env_vars, includes,
          files, dirs, last, hist, nops, other, ret>>

\* The number of operations of one run of the model.
MaxOps == 2

\* The depth of nested calls at which the interpreter raises RecursionError
\* (sys.getrecursionlimit(), 1000 by default), scaled to the workflows of the
\* model: the walker itself counts no depth.
RecursionLimit == 6

(***************************************************************************)
(* Python values                                                           *)
(***************************************************************************)
None == [type |-> "NoneType"]
Str(v) == [type |-> "str", value |-> v]
List(xs) == [type |-> "list", items |-> xs]
SetOf(xs) == [type |-> "set", items |-> xs]
DictOf(xs) == [type |-> "dict", items |-> xs]

OrbiterPool(n, k) == [type |-> "OrbiterPool", name |-> n, slots |-> k]
OrbiterConnection(id, t) == [type |-> "OrbiterConnection", conn_id |-> id, conn_type |-> t]
OrbiterVariable(k, v) == [type |-> "OrbiterVariable", key |-> k, value |-> v]
OrbiterEnvVar(k, v) == [type |-> "OrbiterEnvVar", key |-> k, value |-> v]
OrbiterInclude(p, c) == [type |-> "OrbiterInclude", filepath |-> p, contents |-> c]
OrbiterRequirement(pkg, mod, sys) ==
    [type |-> "OrbiterRequirement", package |-> pkg, module |-> mod, sys_package |-> sys]

Obj(t, attrs) == [type |-> t, dict |-> attrs]
A(n, v) == [name |-> n, value |-> v]

hasattr(thing, n) ==
    /\ "dict" \in DOMAIN thing
    /\ \E i \in DOMAIN thing.dict : thing.dict[i].name = n
getattr(thing, n) ==
    thing.dict[CHOOSE i \in DOMAIN thing.dict : thing.dict[i].name = n].value

\* Python truthiness of the values the code tests with "and (x := ...)" or "or".
Truthy(v) ==
    CASE v.type = "NoneType" -> FALSE
      [] v.type \in {"list", "set", "dict"} -> v.items # <<>>
      [] v.type = "str" -> v.value # ""
      [] OTHER -> TRUE

\* hasattr(thing, "__dict__") or hasattr(thing, "model_extra"): instances of
\* classes have a __dict__; str, list, set, dict and None have neither.
HasDict(thing) == thing.type \notin {"str", "list", "set", "dict", "NoneType"}

\* (getattr(thing, "__dict__", {}) | getattr(thing, "model_extra", {})).values()
DictValues(thing) ==
    IF "dict" \in DOMAIN thing
    THEN [i \in DOMAIN thing.dict |-> thing.dict[i].value]
    ELSE <<>>

\* Python evaluates an argument once, before the call: Bind(v, F) is F of
\* the value of v.
Bind(v, F(_)) == CHOOSE r \in {F(x) : x \in {v}} : TRUE

(***************************************************************************)
(* Python dicts: insertion-ordered sequences of [k, v]                     *)
(***************************************************************************)
Keys(d) == {d[i].k : i \in DOMAIN d}
Get(d, key) == d[CHOOSE i \in DOMAIN d : d[i].k = key].v
Values(d) == [i \in DOMAIN d |-> d[i].v]

DictSetKeepFirst(d, key, v) ==
    IF key \in Keys(d) THEN d ELSE Append(d, [k |-> key, v |-> v])

DictSetAppend(d, key, v) == Append(d, [k |-> key, v |-> v])

\* d[key] = v
DictSet(d, key, v) ==
    IF key \in Keys(d)
    THEN [i \in DOMAIN d |-> IF d[i].k = key THEN [k |-> key, v |-> v] ELSE d[i]]
    ELSE Append(d, [k |-> key, v |-> v])

(***************************************************************************)
(* The project and one call in progress                                    *)
(*                                                                         *)
(* A call works on a record s holding the project's collections, err       *)
(* ("ok" until an exception is raised; once raised, the rest of the call   *)
(* is skipped), hist, a history of what was added that the properties      *)
(* below compare the collections with, depth, the number of nested calls   *)
(* of the walker in progress, and trace, what this call did.               *)
(***************************************************************************)
\* What one call did, in the order it did it: the steps of add_dags, the
\* number of things the walker took from the collections it iterates, the
\* classes of the things it probed for attributes and of those it recursed
\* below, and how often it passed each pool to add_pools.
EmptyTrace == [steps |-> <<>>, visits |-> 0, probed |-> {}, descended |-> {},
               pool_passes |-> <<>>]

Self == [dags |-> dags, requirements |-> requirements, pools |-> pools,
         connections |-> connections, variables |-> variables,
         env_vars |-> env_vars, includes |-> includes,
         err |-> "ok", hist |-> hist, depth |-> 0, trace |-> EmptyTrace]

Project(s) == [dags |-> s.dags, requirements |-> s.requirements, pools |-> s.pools,
               connections |-> s.connections, variables |-> s.variables,
               env_vars |-> s.env_vars, includes |-> s.includes]

\* OrbiterProject.__init__
EmptyProject == [dags |-> <<>>, requirements |-> {}, pools |-> <<>>,
                 connections |-> <<>>, variables |-> <<>>,
                 env_vars |-> <<>>, includes |-> <<>>]

\* hist: per keyed collection the entity last added under each key; replaced,
\* the entities that were stored and then written over by a different one;
\* per pool name the pool last added and the sum of the slots added; the
\* requirements added; the ids of the workflows added and the workflows
\* whose add (merge or insert, then both walks) completed.
EmptyHist == [connections |-> <<>>, variables |-> <<>>, env_vars |-> <<>>,
              includes |-> <<>>, replaced |-> {}, pools |-> <<>>,
              pool_slots |-> <<>>, requirements |-> {},
              dag_ids |-> {}, walked |-> {}]

Record(h, key, v) == (key :> v) @@ h

Range(xs) == {xs[i] : i \in DOMAIN xs}

Replaced(d, key, v) == IF key \in Keys(d) /\ Get(d, key) # v THEN {Get(d, key)} ELSE {}

\* validate_call on "X | Iterable[X]": an instance of X is taken as it is;
\* anything else iterable passes as a lazy iterator whose items are validated
\* one by one as the loop of the function draws them.  Iterating a str yields
\* strs; iterating an object of another class yields its fields.
Iter(T, arg) ==
    IF arg.type = T THEN <<arg>>
    ELSE IF arg.type \in {"list", "set", "dict"} THEN arg.items
    ELSE <<Str("f")>>

PoolAddSum(a, b) == [a EXCEPT !.slots = a.slots + b.slots]

\* OrbiterPool.__add__ as add_pools documents it: "override existing pools
\* with new properties"; adding slots=2 to a pool of slots=1 leaves slots=2.
PoolAdd(a, b) == [a EXCEPT !.slots = b.slots]

SetAddReplace(S, x) == {x}

\* set.add
SetAdd(S, x) == S \cup {x}

\* The loop body of each add_* function, for one validated item.
Body(s, fn, x) ==
    CASE fn = "add_connections" ->
            [s EXCEPT !.connections = DictSet(@, x.conn_id, x),
                      !.hist.connections = Record(@, x.conn_id, x),
                      !.hist.replaced = @ \cup Replaced(s.connections, x.conn_id, x)]
      [] fn = "add_variables" ->
            [s EXCEPT !.variables = DictSet(@, x.key, x),
                      !.hist.variables = Record(@, x.key, x),
                      !.hist.replaced = @ \cup Replaced(s.variables, x.key, x)]
      [] fn = "add_env_vars" ->
            [s EXCEPT !.env_vars = DictSet(@, x.key, x),
                      !.hist.env_vars = Record(@, x.key, x),
                      !.hist.replaced = @ \cup Replaced(s.env_vars, x.key, x)]
      [] fn = "add_includes" ->
            [s EXCEPT !.includes = DictSet(@, x.filepath, x),
                      !.hist.includes = Record(@, x.filepath, x),
                      !.hist.replaced = @ \cup Replaced(s.includes, x.filepath, x)]
      [] fn = "add_pools" ->
            [s EXCEPT !.pools = IF x.name \in Keys(@)
                                THEN DictSet(@, x.name, PoolAdd(Get(@, x.name), x))
                                ELSE DictSet(@, x.name, x),
                      !.hist.pools = Record(@, x.name, x),
                      !.hist.pool_slots =
                          Record(@, x.name, x.slots + IF x.name \in DOMAIN @ THEN @[x.name] ELSE 0)]
      [] fn = "add_requirements" ->
            [s EXCEPT !.requirements = SetAdd(@, x),
                      !.hist.requirements = @ \cup {x}]

ArgType(fn) ==
    CASE fn = "add_connections" -> "OrbiterConnection"
      [] fn = "add_variables" -> "OrbiterVariable"
      [] fn = "add_env_vars" -> "OrbiterEnvVar"
      [] fn = "add_includes" -> "OrbiterInclude"
      [] fn = "add_pools" -> "OrbiterPool"
      [] fn = "add_requirements" -> "OrbiterRequirement"
      [] fn = "add_dags" -> "OrbiterDAG"

\* "for x in xs: body": the iterator validates each item as it yields it and
\* raises ValidationError at the first item that is not of the class.
RECURSIVE Loop(_, _, _)
Loop(s_, fn, items) == Bind(s_, LAMBDA s :
    IF s.err # "ok" \/ items = <<>> THEN s
    ELSE IF Head(items).type # ArgType(fn)
         THEN [s EXCEPT !.err = "ValidationError"]
         ELSE Loop(Body(s, fn, Head(items)), fn, Tail(items)))

add_connections(s, arg) == Loop(s, "add_connections", Iter("OrbiterConnection", arg))
add_variables(s, arg) == Loop(s, "add_variables", Iter("OrbiterVariable", arg))
add_env_vars(s, arg) == Loop(s, "add_env_vars", Iter("OrbiterEnvVar", arg))
add_includes(s, arg) == Loop(s, "add_includes", Iter("OrbiterInclude", arg))
add_pools(s, arg) == Loop(s, "add_pools", Iter("OrbiterPool", arg))
add_requirements(s, arg) == Loop(s, "add_requirements", Iter("OrbiterRequirement", arg))

(***************************************************************************)
(* add_dags and its walker                                                 *)
(***************************************************************************)
\* "hasattr(thing, a) and (v := thing.a)"
Has(thing, a) == hasattr(thing, a) /\ Truthy(getattr(thing, a))

isinstance_never(thing, cls) == FALSE

isinstance(thing, cls) == thing.type = cls

\* The walker got a pool from thing.orbiter_pool and calls add_pools with it.
Passed(s, pool) ==
    IF pool.type # "OrbiterPool" THEN s
    ELSE [s EXCEPT !.trace.pool_passes =
             Record(@, pool.name, 1 + IF pool.name \in DOMAIN @ THEN @[pool.name] ELSE 0)]

RECURSIVE _add_recursively(_, _)
RECURSIVE Descend(_, _, _)

\* for thing in things: ...
_add_recursively(s_, things) == Bind(s_, LAMBDA s :
    IF s.err # "ok" \/ things = <<>> THEN s
    ELSE LET thing == Head(things)
             s0 == [s EXCEPT !.trace.visits = @ + 1,
                             !.trace.probed = @ \cup {thing.type}]
             s1 == Bind(s0, LAMBDA t :
                       IF Has(thing, "orbiter_pool")
                       THEN add_pools(Passed(t, getattr(thing, "orbiter_pool")),
                                      getattr(thing, "orbiter_pool"))
                       ELSE t)
             s2 == Bind(s1, LAMBDA t :
                       IF Has(thing, "orbiter_conns")
                       THEN add_connections(t, getattr(thing, "orbiter_conns")) ELSE t)
             s3 == Bind(s2, LAMBDA t :
                       IF Has(thing, "orbiter_vars")
                       THEN add_variables(t, getattr(thing, "orbiter_vars")) ELSE t)
             s4 == Bind(s3, LAMBDA t :
                       IF Has(thing, "orbiter_env_vars")
                       THEN add_env_vars(t, getattr(thing, "orbiter_env_vars")) ELSE t)
             s5 == Bind(s4, LAMBDA t :
                       IF Has(thing, "orbiter_includes")
                       THEN add_includes(t, getattr(thing, "orbiter_includes")) ELSE t)
             s6 == Bind(s5, LAMBDA t :
                       IF Has(thing, "imports")
                       THEN add_requirements(t, getattr(thing, "imports")) ELSE t)
             s7 == Bind(s6, LAMBDA t :
                       IF isinstance(thing, "OrbiterTaskGroup") /\ Has(thing, "tasks")
                       THEN Descend(t, thing, getattr(thing, "tasks").items)
                       ELSE t)
             s8 == Bind(s7, LAMBDA t :
                       IF HasDict(thing) THEN Descend(t, thing, DictValues(thing)) ELSE t)
         IN  IF isinstance(thing, "str")
             THEN _add_recursively([s EXCEPT !.trace.visits = @ + 1], Tail(things))
             ELSE _add_recursively(s8, Tail(things)))

\* A call of _add_recursively(things) made for parent (by the walker itself,
\* or by add_dags for the workflow): one more frame on the interpreter's
\* stack until it returns.
Descend(s_, parent, things) == Bind(s_, LAMBDA s :
    IF s.err # "ok" THEN s
    ELSE IF s.depth >= RecursionLimit THEN [s EXCEPT !.err = "RecursionError"]
    ELSE Bind(_add_recursively([s EXCEPT !.depth = @ + 1,
                                         !.trace.descended = @ \cup {parent.type}],
                               things),
              LAMBDA r : [r EXCEPT !.depth = s.depth]))

dag_id(dag) == getattr(dag, "dag_id").value
file_path(dag) == getattr(dag, "file_path").value

\* The key of a task in a workflow's tasks dict.
TaskKey(t) ==
    IF hasattr(t, "task_id") THEN getattr(t, "task_id").value
    ELSE getattr(t, "task_group_id").value

RECURSIVE MergeTasks(_, _)
MergeTasks(xs, ys) ==
    IF ys = <<>> THEN xs
    ELSE LET y == Head(ys)
             hit == {i \in DOMAIN xs : TaskKey(xs[i]) = TaskKey(y)}
         IN  MergeTasks(IF hit = {} THEN Append(xs, y)
                        ELSE [i \in DOMAIN xs |-> IF i \in hit THEN y ELSE xs[i]],
                        Tail(ys))

\* OrbiterDAG.__add__: the tasks of the two workflows combine under their
\* task ids; the workflow keeps its id and its file path.
DagAdd(a, b) ==
    [a EXCEPT !.dict = [i \in DOMAIN a.dict |->
        IF a.dict[i].name = "tasks"
        THEN A("tasks", DictOf(MergeTasks(a.dict[i].value.items,
                                          getattr(b, "tasks").items)))
        ELSE a.dict[i]]]

TasksTwice(dag) ==
    IF Has(dag, "tasks") THEN getattr(dag, "tasks").items \o getattr(dag, "tasks").items
    ELSE <<>>

\* "(dag.tasks or {}).values()"
TasksOf(dag) == IF Has(dag, "tasks") THEN getattr(dag, "tasks").items ELSE <<>>

\* The call got to the next step for workflow id.
Step(s_, id, what) == Bind(s_, LAMBDA s :
    IF s.err # "ok" THEN s ELSE [s EXCEPT !.trace.steps = Append(@, <<id, what>>)])

AddDagObjectFirst(s, dag) ==
    LET id == dag_id(dag)
        s0 == [s EXCEPT !.dags = IF id \in Keys(@)
                                 THEN DictSet(@, id, DagAdd(Get(@, id), dag))
                                 ELSE DictSet(@, id, dag),
                        !.hist.dag_ids = @ \cup {id},
                        !.trace.steps =
                            Append(@, <<id, IF id \in Keys(s.dags) THEN "merge" ELSE "insert">>)]
        s1 == Descend(Step(s0, id, "walk dag"), dag, <<dag>>)
    IN  Bind(Descend(Step(s1, id, "walk tasks"), dag, TasksOf(dag)), LAMBDA s2 :
            IF s2.err = "ok" THEN [s2 EXCEPT !.hist.walked = @ \cup {dag}] ELSE s2)

\* The body of the loop of add_dags, for one validated workflow.
AddDag(s, dag) ==
    LET id == dag_id(dag)
        s0 == [s EXCEPT !.dags = IF id \in Keys(@)
                                 THEN DictSet(@, id, DagAdd(Get(@, id), dag))
                                 ELSE DictSet(@, id, dag),
                        !.hist.dag_ids = @ \cup {id},
                        !.trace.steps =
                            Append(@, <<id, IF id \in Keys(s.dags) THEN "merge" ELSE "insert">>)]
        s1 == Descend(Step(s0, id, "walk tasks"), dag, TasksOf(dag))
    IN  Bind(Descend(Step(s1, id, "walk dag"), dag, <<dag>>), LAMBDA s2 :
            IF s2.err = "ok" THEN [s2 EXCEPT !.hist.walked = @ \cup {dag}] ELSE s2)

RECURSIVE DagLoop(_, _)
DagLoop(s_, items) == Bind(s_, LAMBDA s :
    IF s.err # "ok" \/ items = <<>> THEN s
    ELSE IF Head(items).type # "OrbiterDAG"
         THEN [s EXCEPT !.err = "ValidationError"]
         ELSE DagLoop(AddDag(s, Head(items)), Tail(items)))

add_dags(s, arg) == DagLoop(s, Iter("OrbiterDAG", arg))

(***************************************************************************)
(* render                                                                  *)
(*                                                                         *)
(* A path is the sequence of its components below output_dir.  f holds the *)
(* files written (path -> text), the directories that exist, and err.      *)
(***************************************************************************)
Parent(path) == SubSeq(path, 1, Len(path) - 1)

RECURSIVE Ancestors(_)
Ancestors(path) == IF path = <<>> THEN {<<>>} ELSE {path} \cup Ancestors(Parent(path))

\* Path.mkdir(parents=True, exist_ok=True)
Mkdir(f_, path) == Bind(f_, LAMBDA f :
    IF f.err # "ok" THEN f ELSE [f EXCEPT !.dirs = @ \cup Ancestors(path)])

WriteTextAppend(f_, path, text) == Bind(f_, LAMBDA f :
    IF f.err # "ok" THEN f
    ELSE IF Parent(path) \notin f.dirs THEN [f EXCEPT !.err = "FileNotFoundError"]
    ELSE [f EXCEPT !.files =
             (path :> IF path \in DOMAIN @ THEN <<@[path], text>> ELSE text) @@ @])

\* Path.write_text / open("w"): the parent directory must exist.
WriteText(f_, path, text) == Bind(f_, LAMBDA f :
    IF f.err # "ok" THEN f
    ELSE IF Parent(path) \notin f.dirs THEN [f EXCEPT !.err = "FileNotFoundError"]
    ELSE [f EXCEPT !.files = (path :> text) @@ @])

\* The order of str on the names of the model ("a" < "b" in Python).
StrRank(x) ==
    CASE x = "apache-airflow" -> 1
      [] x = "croniter" -> 2
      [] x = "liba" -> 3
      [] x = "libx" -> 4

RECURSIVE Descending(_)
Descending(S) ==
    IF S = {} THEN <<>>
    ELSE LET m == CHOOSE x \in S : \A y \in S : StrRank(x) >= StrRank(y)
         IN  <<m>> \o Descending(S \ {m})

\* sorted(set(...)) of strs
RECURSIVE Sorted(_)
Sorted(S) ==
    IF S = {} THEN <<>>
    ELSE LET m == CHOOSE x \in S : \A y \in S : StrRank(x) <= StrRank(y)
         IN  <<m>> \o Sorted(S \ {m})


\* "\n".join(sorted(set(r.package for r in self.requirements if r.package)))
PackageLines(reqs) == Sorted({r.package : r \in {q \in reqs : q.package # ""}})

\* "\n".join(sorted(set(r.sys_package for r in self.requirements if r.sys_package)))
SysPackageLines(reqs) == Sorted({r.sys_package : r \in {q \in reqs : q.sys_package # ""}})

\* str(dag): the source text of the workflow, which names it and its tasks.
DagText(dag) ==
    [dag_id |-> dag_id(dag),
     tasks |-> [i \in DOMAIN TasksOf(dag) |-> TaskKey(TasksOf(dag)[i])]]

\* The render() of an entity: pools, variables and connections give a mapping
\* of their fields, an env var its KEY=VALUE line, an include its contents.
RenderEntity(e) ==
    CASE e.type = "OrbiterPool" -> [name |-> e.name, slots |-> e.slots]
      [] e.type = "OrbiterVariable" -> [variable_name |-> e.key, variable_value |-> e.value]
      [] e.type = "OrbiterConnection" -> [conn_id |-> e.conn_id, conn_type |-> e.conn_type]
      [] e.type = "OrbiterEnvVar" -> <<e.key, "=", e.value>>
      [] e.type = "OrbiterInclude" -> e.contents

RenderAll(d) == [i \in DOMAIN d |-> RenderEntity(d[i].v)]

RECURSIVE WriteDagsById(_, _)
WriteDagsById(f_, ds) == Bind(f_, LAMBDA f :
    IF f.err # "ok" \/ ds = <<>> THEN f
    ELSE WriteDagsById(WriteText(f, <<"dags", dag_id(Head(ds))>>, DagText(Head(ds))),
                       Tail(ds)))

RECURSIVE WriteDags(_, _)
WriteDags(f_, ds) == Bind(f_, LAMBDA f :
    IF f.err # "ok" \/ ds = <<>> THEN f
    ELSE LET dag_file == <<"dags", file_path(Head(ds))>>
         IN  WriteDags(WriteText(Mkdir(f, Parent(dag_file)), dag_file, DagText(Head(ds))),
                       Tail(ds)))

RECURSIVE WriteIncludes(_, _)
WriteIncludes(f_, is) == Bind(f_, LAMBDA f :
    IF f.err # "ok" \/ is = <<>> THEN f
    ELSE WriteIncludes(WriteText(f, Head(is).filepath, RenderEntity(Head(is))), Tail(is)))

WriteRequirements(f, p) ==
    IF \E r \in p.requirements : r.package # ""
    THEN WriteText(f, <<"requirements.txt">>, PackageLines(p.requirements))
    ELSE f

WritePackages(f, p) ==
    IF \E r \in p.requirements : r.sys_package # ""
    THEN WriteText(f, <<"packages.txt">>, SysPackageLines(p.requirements))
    ELSE f

WriteSettings(f, p) ==
    IF Len(p.pools) > 0 \/ Len(p.variables) > 0 \/ Len(p.connections) > 0
    THEN WriteText(f, <<"airflow_settings.yaml">>,
                   [airflow |-> [pools |-> RenderAll(p.pools),
                                 variables |-> RenderAll(p.variables),
                                 connections |-> RenderAll(p.connections)]])
    ELSE f

WriteDotenv(f, p) ==
    IF Len(p.env_vars) > 0
    THEN WriteText(f, <<".env">>, RenderAll(p.env_vars))
    ELSE f

RenderUnchecked(p, f) ==
    WriteDotenv(WriteIncludes(WriteSettings(WritePackages(WriteRequirements(
        WriteDags(Mkdir(f, <<"dags">>), Values(p.dags)), p), p), p), Values(p.includes)), p)

render(p, f) ==
    IF Len(p.dags) = 0 THEN [f EXCEPT !.err = "RuntimeError"]
    ELSE LET f1 == Mkdir(f, <<"dags">>)
             f2 == WriteDags(f1, Values(p.dags))
             f3 == WriteRequirements(f2, p)
             f4 == WritePackages(f3, p)
             f5 == WriteSettings(f4, p)
             f6 == WriteIncludes(f5, Values(p.includes))
             f7 == WriteDotenv(f6, p)
         IN  f7

(***************************************************************************)
(* The entities and workflows the operations are called with               *)
(***************************************************************************)
Foo == Str("foo")

c1 == OrbiterConnection("c1", "generic")
c1smtp == OrbiterConnection("c1", "smtp")
SMTP == OrbiterConnection("SMTP", "smtp")
v1 == OrbiterVariable("v1", "a")
v1b == OrbiterVariable("v1", "b")
e1 == OrbiterEnvVar("E1", "a")
e1b == OrbiterEnvVar("E1", "b")
e2 == OrbiterEnvVar("E2", "a")
inc1 == OrbiterInclude(<<"foo.txt">>, "Hello")
inc1b == OrbiterInclude(<<"foo.txt">>, "World")
inc2 == OrbiterInclude(<<"include", "bar.py">>, "pass")
p1x2 == OrbiterPool("p1", 2)
p1x3 == OrbiterPool("p1", 3)
p2x2 == OrbiterPool("p2", 2)
rA == OrbiterRequirement("croniter", "multi_cron_timetable", "")
rB == OrbiterRequirement("apache-airflow", "airflow", "libx")
rC == OrbiterRequirement("apache-airflow", "airflow.operators.bash", "liba")
rD == OrbiterRequirement("", "local_module", "libx")

Task(cls, id, attrs) == Obj(cls, <<A("task_id", Str(id))>> \o attrs)
TaskGroup(id, tasks) ==
    Obj("OrbiterTaskGroup", <<A("task_group_id", Str(id)), A("tasks", List(tasks))>>)
DAG(id, path, tasks, attrs) ==
    Obj("OrbiterDAG", <<A("dag_id", Str(id)), A("file_path", Str(path)),
                        A("tasks", DictOf(tasks))>> \o attrs)
\* orbiter_kwargs={"file_path": src}: what the workflow was translated from.
orbiter_kwargs(src) ==
    A("orbiter_kwargs", DictOf(<<[type |-> "item", key |-> "file_path", value |-> Str(src)]>>))

\* A task referencing pool p1 (2 slots) and connection c1.
W1 == DAG("d1", "a.py",
          <<Task("OrbiterBashOperator", "t1",
                 <<A("orbiter_pool", p1x2), A("orbiter_conns", SetOf(<<c1>>))>>)>>,
          <<orbiter_kwargs("src.xml")>>)
\* A task referencing pool p1 (3 slots), translated from the same source file.
W2 == DAG("d2", "b.py",
          <<Task("OrbiterBashOperator", "t2",
                 <<A("orbiter_pool", p1x3), A("imports", List(<<rD>>))>>)>>,
          <<orbiter_kwargs("src.xml")>>)
\* Two tasks inside a TaskGroup inside a TaskGroup, one referencing pool p2.
W3 == DAG("d1", "a.py",
          <<TaskGroup("g1", <<TaskGroup("g2",
              <<Task("OrbiterEmptyOperator", "t3",
                     <<A("orbiter_pool", None),
                       A("orbiter_vars", SetOf(<<v1>>)),
                       A("orbiter_env_vars", SetOf(<<e1>>)),
                       A("imports", List(<<rA>>))>>),
                Task("OrbiterEmptyOperator", "t3b",
                     <<A("orbiter_pool", p2x2)>>)>>)>>)>>,
          <<>>)
\* A callback attached to a task, a schedule and entities of the workflow
\* itself; the task and the workflow each reference a connection c1.
W4 == DAG("d2", "a.py",
          <<Task("OrbiterBashOperator", "t4",
                 <<A("on_success_callback",
                     Obj("OrbiterCallback", <<A("orbiter_conns", SetOf(<<SMTP>>)),
                                              A("imports", List(<<rB>>))>>)),
                   A("orbiter_conns", SetOf(<<c1>>)),
                   A("imports", List(<<rC>>))>>)>>,
          <<A("schedule", Obj("OrbiterTimetable",
                              <<A("imports", List(<<rA>>)),
                                A("orbiter_includes", SetOf(<<inc2>>))>>)),
            A("orbiter_env_vars", SetOf(<<e2>>)),
            A("orbiter_conns", SetOf(<<c1smtp>>))>>)
\* Callbacks held in a list and in a dict, in attributes of a task.
W5 == DAG("d2", "b.py",
          <<Task("OrbiterEmptyOperator", "t5",
                 <<A("extra_callbacks",
                     List(<<Obj("OrbiterCallback", <<A("orbiter_conns", SetOf(<<SMTP>>))>>)>>)),
                   A("op_kwargs",
                     DictOf(<<Obj("OrbiterCallback", <<A("orbiter_vars", SetOf(<<v1b>>))>>)>>)),
                   A("orbiter_env_vars", SetOf(<<e1b>>))>>)>>,
          <<>>)
\* A task below four nested TaskGroups: its pool lies deeper than the
\* interpreter's stack lets the walker go.
W6 == DAG("d3", "c.py",
          <<TaskGroup("g1", <<TaskGroup("g2", <<TaskGroup("g3", <<TaskGroup("g4",
              <<Task("OrbiterEmptyOperator", "t6", <<A("orbiter_pool", p2x2)>>)>>)>>)>>)>>)>>,
          <<>>)

Workflows == {W1, W2, W3, W4, W5}
DeepWorkflows == {W6}
Connections == {c1, c1smtp, SMTP}
Variables == {v1, v1b}
EnvVars == {e1, e1b, e2}
Includes == {inc1, inc1b, inc2}
Pools == {p1x2, p1x3, p2x2}
Requirements == {rA, rB, rC, rD}

\* What an add_* function is called with: one entity, a list of one or two
\* items (entities, or a str where an entity is expected), or a str.
Args(E) ==
    E \cup {Foo}
      \cup {List(<<x>>) : x \in E \cup {Foo}}
      \cup {List(<<x, y>>) : x \in E, y \in E \cup {Foo}}

(***************************************************************************)
(* __add__, __eq__ and analyze                                             *)
(***************************************************************************)
\* Iterating a set: its members, each once, in some order.
RECURSIVE Iterate(_)
Iterate(S) ==
    IF S = {} THEN <<>>
    ELSE LET x == CHOOSE y \in S : TRUE IN <<x>> \o Iterate(S \ {x})

\* self.<fn>(x)
AddOnce(fn, s, x) ==
    CASE fn = "add_connections" -> add_connections(s, x)
      [] fn = "add_variables" -> add_variables(s, x)
      [] fn = "add_env_vars" -> add_env_vars(s, x)
      [] fn = "add_includes" -> add_includes(s, x)
      [] fn = "add_pools" -> add_pools(s, x)
      [] fn = "add_requirements" -> add_requirements(s, x)
      [] fn = "add_dags" -> add_dags(s, x)

\* The collection of other that __add__ gives to fn.
Collection(q, fn) ==
    CASE fn = "add_dags" -> List(Values(q.dags))
      [] fn = "add_requirements" -> List(Iterate(q.requirements))
      [] fn = "add_pools" -> List(Values(q.pools))
      [] fn = "add_connections" -> List(Values(q.connections))
      [] fn = "add_variables" -> List(Values(q.variables))
      [] fn = "add_env_vars" -> List(Values(q.env_vars))
      [] fn = "add_includes" -> List(Values(q.includes))

RECURSIVE AddEach(_, _, _)
AddEach(s_, q, fns) == Bind(s_, LAMBDA s :
    IF fns = <<>> THEN s
    ELSE AddEach(AddOnce(Head(fns), s, Collection(q, Head(fns))), q, Tail(fns)))

AddDagsLast(s, q) ==
    IF q = None THEN s
    ELSE IF "dags" \notin DOMAIN q THEN [s EXCEPT !.err = "TypeError"]
    ELSE AddEach(s, q, <<"add_requirements", "add_pools", "add_connections",
                         "add_variables", "add_env_vars", "add_includes", "add_dags">>)

\* self + other: None is falsy; anything that is no project raises TypeError;
\* else every add_* is called with the collection of other, in this order.
__add__(s, q) ==
    IF q = None THEN s
    ELSE IF "dags" \notin DOMAIN q THEN [s EXCEPT !.err = "TypeError"]
    ELSE AddEach(s, q, <<"add_dags", "add_requirements", "add_pools", "add_connections",
                         "add_variables", "add_env_vars", "add_includes">>)

\* dict == dict: the same keys with equal values, in whatever order.
DictEq(d, e) ==
    /\ Keys(d) = Keys(e)
    /\ \A key \in Keys(d) : Get(d, key) = Get(e, key)

\* self == other.  The list given to all() is built first: other.dags[d]
\* raises KeyError for an id of self that other lacks, and self.dags[d] for
\* an id of other that self lacks.
__eq__(p, q) ==
    IF Keys(p.dags) # Keys(q.dags) THEN [err |-> "KeyError", value |-> FALSE]
    ELSE [err |-> "ok",
          value |-> /\ \A d \in Keys(p.dags) : DagText(Get(p.dags, d)) = DagText(Get(q.dags, d))
                    /\ p.requirements = q.requirements
                    /\ DictEq(p.pools, q.pools)
                    /\ DictEq(p.connections, q.connections)
                    /\ DictEq(p.variables, q.variables)
                    /\ DictEq(p.env_vars, q.env_vars)]

\* dict.get(key, default)
GetOr(d, key, default) == IF key \in Keys(d) THEN Get(d, key) ELSE default

\* d |= e
RECURSIVE Update(_, _)
Update(d, e) ==
    IF e = <<>> THEN d ELSE Update(DictSet(d, Head(e).k, Head(e).v), Tail(e))

\* dag.orbiter_kwargs.get("file_path", dag.file_path)
SourceFile(dag) ==
    LET kw == IF hasattr(dag, "orbiter_kwargs") THEN getattr(dag, "orbiter_kwargs").items
              ELSE <<>>
        hit == {i \in DOMAIN kw : kw[i].key = "file_path"}
    IN  IF hit # {} THEN kw[CHOOSE i \in hit : TRUE].value.value ELSE file_path(dag)

\* [type(task).__name__ for task in dag.tasks.values()]
TaskTypes(dag) ==
    [i \in DOMAIN getattr(dag, "tasks").items |-> getattr(dag, "tasks").items[i].type]

\* reduce(lambda acc, task_type: acc | {task_type: acc.get(task_type, 0) + 1}, ...)
RECURSIVE CountTypes(_, _)
CountTypes(acc, types) ==
    IF types = <<>> THEN acc
    ELSE CountTypes(DictSet(acc, Head(types), GetOr(acc, Head(types), 0) + 1), Tail(types))

\* The loop of analyze over the workflows: file -> {"DAGs": n, <type>: n, ...}
RECURSIVE FileAnalysis(_, _)
FileAnalysis(file_analysis, ds) ==
    IF ds = <<>> THEN file_analysis
    ELSE LET file == SourceFile(Head(ds))
             out0 == GetOr(file_analysis, file, <<>>)
             out1 == DictSet(out0, "DAGs", GetOr(out0, "DAGs", 0) + 1)
             out2 == Update(out1, CountTypes(<<>>, TaskTypes(Head(ds))))
         IN  FileAnalysis(DictSet(file_analysis, file, out2), Tail(ds))

\* for k, v in file.items(): if k != "": totals[k] = totals.get(k, 0) + v
RECURSIVE AddRow(_, _)
AddRow(totals, items) ==
    IF items = <<>> THEN totals
    ELSE AddRow(IF Head(items).k # ""
                THEN DictSet(totals, Head(items).k, GetOr(totals, Head(items).k, 0) + Head(items).v)
                ELSE totals,
                Tail(items))

RECURSIVE Totals(_, _)
Totals(totals, rows) ==
    IF rows = <<>> THEN totals ELSE Totals(AddRow(totals, Head(rows)), Tail(rows))

\* The rows of the summary: one dict per file, then the totals.
Summary(p) ==
    LET fa == FileAnalysis(<<>>, Values(p.dags))
        rows == [i \in DOMAIN fa |-> <<[k |-> "", v |-> fa[i].k]>> \o fa[i].v]
    IN  Append(rows, Totals(<<[k |-> "", v |-> "Totals"]>>, rows))

\* The keys of the rows, in the order of their first appearance.
RECURSIVE Headers(_, _)
Headers(hs, rows) ==
    IF rows = <<>> THEN hs
    ELSE Headers(hs \o SelectSeq([i \in DOMAIN Head(rows) |-> Head(rows)[i].k],
                                 LAMBDA key : key \notin Range(hs)),
                 Tail(rows))

Cells(fieldnames, row, missing) ==
    [i \in DOMAIN fieldnames |-> GetOr(row, fieldnames[i], missing)]

\* csv.DictWriter(fieldnames).writerows(rows): a row with a key that is not
\* a fieldname raises ValueError; the rows before it are written.
RECURSIVE writerows(_, _, _)
writerows(w, fieldnames, rows) ==
    IF rows = <<>> THEN w
    ELSE IF Keys(Head(rows)) \subseteq Range(fieldnames)
         THEN writerows([w EXCEPT !.out = Append(@, Cells(fieldnames, Head(rows), ""))],
                        fieldnames, Tail(rows))
         ELSE [w EXCEPT !.err = "ValueError"]

\* analyze(output_fmt): what is printed.  json dumps the rows; csv writes
\* the keys of the first row as header, then the rows; md prints a table
\* whose columns are the keys of all rows, with a filler for a missing cell.
analyze(p, output_fmt) ==
    IF output_fmt \notin {"json", "csv", "md"}
    THEN [err |-> "ValidationError", out |-> <<>>]
    ELSE LET file_analysis == Summary(p)
             fieldnames == Headers(<<>>, <<file_analysis[1]>>)
             headers == Headers(<<>>, file_analysis)
         IN  CASE output_fmt = "json" -> [err |-> "ok", out |-> file_analysis]
               [] output_fmt = "csv" ->
                      writerows([err |-> "ok", out |-> <<fieldnames>>], fieldnames, file_analysis)
               [] output_fmt = "md" ->
                      [err |-> "ok",
                       out |-> <<headers>> \o
                               [i \in DOMAIN file_analysis |->
                                   Cells(headers, file_analysis[i], "missing")]]

\* The projects a project is combined and compared with.
NewProject ==
    EmptyProject @@ [err |-> "ok", hist |-> EmptyHist, depth |-> 0, trace |-> EmptyTrace]
Others ==
    {Project(q) : q \in
        {NewProject,
         add_dags(NewProject, W1),
         add_connections(add_dags(NewProject, W1), c1smtp),
         add_dags(NewProject, W3),
         add_dags(NewProject, W2),
         add_includes(NewProject, inc1),
         add_pools(NewProject, p1x3),
         add_requirements(NewProject, rA),
         add_variables(NewProject, v1b),
         add_env_vars(NewProject, e1b),
         add_connections(NewProject, c1)}}

OutputFormats == {"json", "csv", "md"}

(***************************************************************************)
(* The state machine                                                       *)
(***************************************************************************)
Init ==
    /\ dags = <<>>
    /\ requirements = {}
    /\ pools = <<>>
    /\ connections = <<>>
    /\ variables = <<>>
    /\ env_vars = <<>>
    /\ includes = <<>>
    /\ files = <<>>
    /\ dirs \in {{}, {<<>>, <<"include">>}}
    /\ last = [op |-> "__init__", err |-> "ok", noop |-> FALSE]
    /\ hist = EmptyHist
    /\ nops = 0
    /\ other = None
    /\ ret = <<>>

\* The call returned or raised: what it did to the project stays.  (An
\* action takes the one result s of its call from the set {call}.)  other is
\* the right operand of == and ret what the call returned or printed.
Commit(op, s) ==
    /\ nops' = nops + 1
    /\ dags' = s.dags
    /\ requirements' = s.requirements
    /\ pools' = s.pools
    /\ connections' = s.connections
    /\ variables' = s.variables
    /\ env_vars' = s.env_vars
    /\ includes' = s.includes
    /\ hist' = s.hist
    /\ last' = [op |-> op, err |-> s.err, noop |-> Project(s) = Project(Self)]
    /\ other' = None
    /\ ret' = <<>>
    /\ UNCHANGED <<files, dirs>>

AddConnections ==
    /\ nops < MaxOps
    /\ \E arg \in Args(Connections) : \E s \in {add_connections(Self, arg)} : Commit("add_connections", s)
AddVariables ==
    /\ nops < MaxOps
    /\ \E arg \in Args(Variables) : \E s \in {add_variables(Self, arg)} : Commit("add_variables", s)
AddEnvVars ==
    /\ nops < MaxOps
    /\ \E arg \in Args(EnvVars) : \E s \in {add_env_vars(Self, arg)} : Commit("add_env_vars", s)
AddIncludes ==
    /\ nops < MaxOps
    /\ \E arg \in Args(Includes) : \E s \in {add_includes(Self, arg)} : Commit("add_includes", s)
AddPools ==
    /\ nops < MaxOps
    /\ \E arg \in Args(Pools) : \E s \in {add_pools(Self, arg)} : Commit("add_pools", s)
AddRequirements ==
    /\ nops < MaxOps
    /\ \E arg \in Args(Requirements) : \E s \in {add_requirements(Self, arg)} : Commit("add_requirements", s)
AddDags ==
    /\ nops < MaxOps
    /\ \E arg \in Args(Workflows) \cup DeepWorkflows :
          \E s \in {add_dags(Self, arg)} : Commit("add_dags", s)

Render ==
    /\ nops < MaxOps
    /\ \E f \in {render(Project(Self), [files |-> files, dirs |-> dirs, err |-> "ok"])} :
           /\ files' = f.files
           /\ dirs' = f.dirs
           /\ last' = [op |-> "render", err |-> f.err,
                        noop |-> f.files = files /\ f.dirs = dirs]
    /\ nops' = nops + 1
    /\ other' = None
    /\ ret' = <<>>
    /\ UNCHANGED <<dags, requirements, pools, connections, variables, env_vars,
                   includes, hist>>

Add ==
    /\ nops < MaxOps
    /\ \E q \in Others \cup {None, Foo} : \E s \in {__add__(Self, q)} : Commit("__add__", s)

\* A call that only reads the project.
Return(op, err, arg, value) ==
    /\ nops' = nops + 1
    /\ last' = [op |-> op, err |-> err, noop |-> TRUE]
    /\ other' = arg
    /\ ret' = <<value>>
    /\ UNCHANGED <<dags, requirements, pools, connections, variables, env_vars,
                   includes, hist, files, dirs>>

Eq ==
    /\ nops < MaxOps
    /\ \E q \in Others :
          \E e \in {__eq__(Project(Self), q)} : Return("__eq__", e.err, q, e.value)

Analyze ==
    /\ nops < MaxOps
    /\ \E output_fmt \in OutputFormats :
          \E a \in {analyze(Project(Self), output_fmt)} :
              Return("analyze", a.err, Str(output_fmt), a.out)

Next ==
    \/ AddConnections
    \/ AddVariables
    \/ AddEnvVars
    \/ AddIncludes
    \/ AddPools
    \/ AddRequirements
    \/ AddDags
    \/ Render
    \/ Add
    \/ Eq
    \/ Analyze

Spec == Init /\ [][Next]_vars

(***************************************************************************)
(* Properties                                                              *)
(***************************************************************************)
EntityTypes == {"OrbiterPool", "OrbiterConnection", "OrbiterVariable",
                "OrbiterEnvVar", "OrbiterInclude", "OrbiterRequirement"}

\* The entities held anywhere below a value: in an attribute, in an attribute
\* of an attribute, in an item of a list, set or dict.
RECURSIVE Reachable(_)
Reachable(v) ==
    IF v.type \in EntityTypes THEN {v}
    ELSE IF v.type \in {"list", "set", "dict"}
         THEN UNION {Reachable(v.items[i]) : i \in DOMAIN v.items}
    ELSE IF "dict" \in DOMAIN v
         THEN UNION {Reachable(v.dict[i].value) : i \in DOMAIN v.dict}
    ELSE {}

Present(e) ==
    CASE e.type = "OrbiterPool" -> e.name \in Keys(pools)
      [] e.type = "OrbiterConnection" -> e.conn_id \in Keys(connections)
      [] e.type = "OrbiterVariable" -> e.key \in Keys(variables)
      [] e.type = "OrbiterEnvVar" -> e.key \in Keys(env_vars)
      [] e.type = "OrbiterInclude" -> e.filepath \in Keys(includes)
      [] e.type = "OrbiterRequirement" -> e \in requirements

Collections == <<dags, requirements, pools, connections, variables, env_vars, includes>>

\* C1: once add_dags has completed for a workflow, every pool, connection,
\* variable, env var, include and requirement held anywhere in the workflow,
\* at any nesting (task groups, callbacks, items of lists and dicts), is in
\* the project's collection of its kind.
C1_NestedEntitiesPresent ==
    \A dag \in hist.walked : \A e \in Reachable(dag) : Present(e)

\* C2: an add_* call that raises ValidationError leaves every collection of
\* the project as it was before the call.
C2_ValidationErrorMutatesNothing ==
    [][(nops' # nops /\ last'.err = "ValidationError") => UNCHANGED Collections]_vars

LastWriteWins(d, h) ==
    /\ Keys(d) = DOMAIN h
    /\ Cardinality(Keys(d)) = Len(d)
    /\ \A i \in DOMAIN d : d[i].v = h[d[i].k]

\* C3: connections, variables, env_vars and includes hold exactly the keys
\* ever added, each key once, mapped to the entity last added under it.
C3_LastWriteWins ==
    /\ LastWriteWins(connections, hist.connections)
    /\ LastWriteWins(variables, hist.variables)
    /\ LastWriteWins(env_vars, hist.env_vars)
    /\ LastWriteWins(includes, hist.includes)

\* add_connections(c1), then add_dags of a workflow that carries another
\* connection c1: the walker's add wrote over the first.
C3_Witness ==
    /\ last = [op |-> "add_dags", err |-> "ok", noop |-> FALSE]
    /\ c1 \in hist.replaced
    /\ c1smtp \in Range(Values(connections))

\* C4 as stated: on a name collision the slot counts add up.
C4_SlotCountsCombine ==
    \A i \in DOMAIN pools : pools[i].v.slots = hist.pool_slots[pools[i].k]

\* C4 amended: pools holds one pool per name ever added; a pool whose name is
\* new is stored as it is, and after a collision the stored pool has the slot
\* count of the pool added last.
C4_PoolKeepsLastSlots ==
    /\ Keys(pools) = DOMAIN hist.pools
    /\ Cardinality(Keys(pools)) = Len(pools)
    /\ \A i \in DOMAIN pools :
          /\ pools[i].v.name = pools[i].k
          /\ pools[i].v.slots = hist.pools[pools[i].k].slots

\* The workflows with pool p1 of 2 slots and pool p1 of 3 slots were added.
C4_Witness ==
    /\ hist.walked = {W1, W2}
    /\ hist.pool_slots = ("p1" :> 5)
    /\ pools = <<[k |-> "p1", v |-> p1x3]>>

Domain(fn) ==
    CASE fn = "add_connections" -> Connections
      [] fn = "add_variables" -> Variables
      [] fn = "add_env_vars" -> EnvVars
      [] fn = "add_includes" -> Includes
      [] fn = "add_pools" -> Pools
      [] fn = "add_requirements" -> Requirements
      [] fn = "add_dags" -> Workflows

AddFns == {"add_connections", "add_variables", "add_env_vars", "add_includes",
           "add_pools", "add_requirements", "add_dags"}

\* C5: from every state in which a call can still be made, and for every add
\* operation and every entity or workflow x, adding x and then x again leaves
\* every collection as adding x once.
C5_AddTwiceIsAddOnce ==
    nops < MaxOps =>
        \A fn \in AddFns : \A x \in Domain(fn) :
            LET once == AddOnce(fn, Self, x)
            IN  Project(AddOnce(fn, once, x)) = Project(once)

\* An add_dags call that found its workflow, pool and connection already there.
C5_Witness ==
    /\ last = [op |-> "add_dags", err |-> "ok", noop |-> TRUE]
    /\ W1 \in hist.walked
    /\ Len(pools) = 1 /\ Len(connections) = 1 /\ Len(dags) = 1

TwoBatches(s, b1, b2) ==
    add_requirements(add_requirements(s, List(b1)), List(b2)).requirements

\* C6: requirements is the set of the requirements ever added, whatever their
\* order, batching and multiplicity; and wherever two more calls can be made,
\* adding [a, b] then [b, c] gives the same set as [c, a] then [b, b].
C6_RequirementsAreASet ==
    /\ requirements = hist.requirements
    /\ nops + 2 <= MaxOps =>
          \A a \in Requirements, b \in Requirements, c \in Requirements :
              /\ TwoBatches(Self, <<a, b>>, <<b, c>>) = TwoBatches(Self, <<c, a>>, <<b, b>>)
              /\ TwoBatches(Self, <<a, b>>, <<b, c>>) = requirements \cup {a, b, c}

\* An add_requirements call whose requirements were all there already.
C6_Witness ==
    /\ last = [op |-> "add_requirements", err |-> "ok", noop |-> TRUE]
    /\ Cardinality(requirements) = 2

\* C7: as long as the project has no workflow, render raises and nothing has
\* been written or created in the output directory, whatever the other
\* collections hold.
C7_EmptyRenderWritesNothing ==
    Len(dags) = 0 =>
        /\ files = <<>>
        /\ <<"dags">> \notin dirs
        /\ dirs \in {{}, {<<>>, <<"include">>}}
        /\ last.op = "render" => last.err = "RuntimeError"

\* render of a project with two pools and no workflow.
C7_Witness ==
    /\ last = [op |-> "render", err |-> "RuntimeError", noop |-> TRUE]
    /\ Len(dags) = 0
    /\ Len(pools) = 2
    /\ dirs = {}

\* render got past its check for workflows.
Rendered == last.op = "render" /\ last.err # "RuntimeError"

Written(path) == path \in DOMAIN files

\* C8: after render, the settings document is there exactly if one of pools,
\* variables, connections is non-empty, and the environment file is there
\* exactly if env_vars is non-empty, holding one line per env var, its
\* rendered form.
C8_SettingsAndDotenv ==
    Rendered =>
        /\ Written(<<"airflow_settings.yaml">>)
              <=> (Len(pools) > 0 \/ Len(variables) > 0 \/ Len(connections) > 0)
        /\ Written(<<".env">>) <=> Len(env_vars) > 0
        /\ Written(<<".env">>) =>
              /\ Len(files[<<".env">>]) = Len(env_vars)
              /\ \A i \in DOMAIN env_vars :
                    files[<<".env">>][i] = <<env_vars[i].k, "=", env_vars[i].v.value>>

\* L lists the names of S in ascending order, each once.
IsManifest(L, S) ==
    /\ Range(L) = S
    /\ \A i \in DOMAIN L : \A j \in DOMAIN L : i < j => StrRank(L[i]) < StrRank(L[j])

Packages == {r.package : r \in requirements} \ {""}
SysPackages == {r.sys_package : r \in requirements} \ {""}

\* C9: after render, requirements.txt is there exactly if some requirement
\* has a package name, and lists the package names ascending, each once;
\* packages.txt likewise for the system-package names, whether or not
\* requirements.txt is there.
C9_Manifests ==
    Rendered =>
        /\ Written(<<"requirements.txt">>) <=> Packages # {}
        /\ Written(<<"requirements.txt">>) => IsManifest(files[<<"requirements.txt">>], Packages)
        /\ Written(<<"packages.txt">>) <=> SysPackages # {}
        /\ Written(<<"packages.txt">>) => IsManifest(files[<<"packages.txt">>], SysPackages)

\* Two requirements share a package, two share a system package.
C9_Witness ==
    /\ Rendered
    /\ requirements = {rA, rB, rC, rD}
    /\ files[<<"requirements.txt">>] = <<"apache-airflow", "croniter">>
    /\ files[<<"packages.txt">>] = <<"liba", "libx">>

DagFiles == {path \in DOMAIN files : Len(path) = 2 /\ path[1] = "dags"}
DagFile(dag) == <<"dags", file_path(dag)>>

\* C10 as stated: after render of a project with n workflows, the dags
\* directory holds n files, each with the text of its own workflow.
C10_OneFilePerWorkflow ==
    Rendered =>
        /\ Cardinality(DagFiles) = Len(dags)
        /\ \A i \in DOMAIN dags : files[DagFile(dags[i].v)] = DagText(dags[i].v)

\* C10 amended: after render, the dags directory holds one file per declared
\* file path; a file holds the text of the last workflow, in the project's
\* order, that declares its path; so with pairwise distinct paths there are n
\* files, each with the text of its own workflow.
C10_OneFilePerDeclaredPath ==
    Rendered =>
        /\ DagFiles = {DagFile(dags[i].v) : i \in DOMAIN dags}
        /\ \A i \in DOMAIN dags :
              (\A j \in DOMAIN dags : j > i => DagFile(dags[j].v) # DagFile(dags[i].v))
                  => files[DagFile(dags[i].v)] = DagText(dags[i].v)
        /\ Cardinality({DagFile(dags[i].v) : i \in DOMAIN dags}) = Len(dags)
              => /\ Cardinality(DagFiles) = Len(dags)
                 /\ \A i \in DOMAIN dags : files[DagFile(dags[i].v)] = DagText(dags[i].v)

\* Two workflows with two file paths were rendered to two files.
C10_Witness ==
    /\ Rendered
    /\ Len(dags) = 2
    /\ DagFiles = {<<"dags", "a.py">>, <<"dags", "b.py">>}

\* C11: after render of a project with workflows, every include is a file at
\* its declared path below the output directory, holding its contents, also
\* when the directory of that path did not exist before render.
C11_IncludesWritten ==
    Rendered =>
        \A i \in DOMAIN includes :
            /\ Written(includes[i].k)
            /\ files[includes[i].k] = includes[i].v.contents

\* p and q have the same workflow ids with equal text per id, and equal
\* requirements, pools, connections, variables, env vars and includes.
SameByValue(p, q) ==
    /\ Keys(p.dags) = Keys(q.dags)
    /\ \A d \in Keys(p.dags) \cap Keys(q.dags) :
          DagText(Get(p.dags, d)) = DagText(Get(q.dags, d))
    /\ p.requirements = q.requirements
    /\ DictEq(p.pools, q.pools)
    /\ DictEq(p.connections, q.connections)
    /\ DictEq(p.variables, q.variables)
    /\ DictEq(p.env_vars, q.env_vars)
    /\ DictEq(p.includes, q.includes)

\* C12: a comparison self == other that returns, returns True exactly if the
\* two projects have the same workflow ids with equal text per id and equal
\* requirements, pools, connections, variables, env vars and includes.
C12_EqualIffSameByValue ==
    (last.op = "__eq__" /\ last.err = "ok") => ret = <<SameByValue(Project(Self), other)>>

\* A call on project p.
Call(p) == p @@ [err |-> "ok", hist |-> EmptyHist, depth |-> 0, trace |-> EmptyTrace]

Plus(p, q) == __add__(Call(p), q)

KeyedKinds == {"dags", "pools", "connections", "variables", "env_vars", "includes"}
OverwriteKinds == {"connections", "variables", "env_vars", "includes"}

SameKeys(a, b) ==
    /\ a.requirements = b.requirements
    /\ \A c \in KeyedKinds : Keys(a[c]) = Keys(b[c])

\* C13: wherever + can still be called, for the project p of the state and
\* every project q, p + q (when it returns) has the requirements of p and q
\* together and, per keyed collection, the keys of p and q together, each
\* once; q + p (when it returns) has the same requirements and key sets; under
\* a key of q, connections, variables, env vars and includes hold q's entity,
\* under any other key p's; and where two + can still be made, (p + q) + r
\* and p + (q + r) have the same requirements and key sets.
C13_PlusIsSequentialAdd ==
    nops < MaxOps =>
        \A q \in Others :
            LET p == Project(Self)
                pq == Plus(p, q)
                qp == Plus(q, p)
            IN  /\ pq.err = "ok"
                /\ pq.requirements = p.requirements \cup q.requirements
                /\ \A c \in KeyedKinds :
                      /\ Keys(pq[c]) = Keys(p[c]) \cup Keys(q[c])
                      /\ Cardinality(Keys(pq[c])) = Len(pq[c])
                /\ \A c \in OverwriteKinds : \A key \in Keys(pq[c]) :
                      Get(pq[c], key) = IF key \in Keys(q[c]) THEN Get(q[c], key)
                                        ELSE Get(p[c], key)
                /\ qp.err = "ok" => SameKeys(qp, pq)
                /\ nops + 2 <= MaxOps =>
                      \A r \in Others :
                          SameKeys(Plus(Project(pq), r), Plus(p, Project(Plus(q, r))))

\* p + q where q holds a workflow that references connection c1 and, in its
\* connections, another c1 that was added later: p's c1 was written over
\* and q's is the one kept.
C13_Witness ==
    /\ last = [op |-> "__add__", err |-> "ok", noop |-> FALSE]
    /\ c1 \in hist.replaced
    /\ Get(connections, "c1") = c1smtp
    /\ Keys(dags) = {"d1"}

SourceFiles == {SourceFile(dags[i].v) : i \in DOMAIN dags}
WorkflowsOf(file) == {i \in DOMAIN dags : SourceFile(dags[i].v) = file}
TypeNames == UNION {Range(TaskTypes(dags[i].v)) : i \in DOMAIN dags}

\* The number of tasks of class t in the workflows translated from file.
TaskCount(file, t) ==
    Cardinality({ij \in WorkflowsOf(file) \X (1 .. 3) :
                    /\ ij[2] \in DOMAIN TaskTypes(dags[ij[1]].v)
                    /\ TaskTypes(dags[ij[1]].v)[ij[2]] = t})

RECURSIVE ColumnSum(_, _)
ColumnSum(rows, key) ==
    IF rows = <<>> THEN 0 ELSE GetOr(Head(rows), key, 0) + ColumnSum(Tail(rows), key)

\* C14: the summary analyze builds (seen here as analyze("json") prints it)
\* has one row per distinct source file, whose workflow count is the number
\* of workflows from that file and whose count per task type is the number of
\* tasks of that type in all workflows of that file, and then a totals row
\* whose every column is the sum of that column over the file rows.
C14_SummaryCounts ==
    (last = [op |-> "analyze", err |-> "ok", noop |-> TRUE] /\ other = Str("json")) =>
        LET table == ret[1]
            rows == SubSeq(table, 1, Len(table) - 1)
            totals == table[Len(table)]
        IN  /\ Len(rows) = Cardinality(SourceFiles)
            /\ {Get(rows[i], "") : i \in DOMAIN rows} = SourceFiles
            /\ \A i \in DOMAIN rows :
                  /\ Get(rows[i], "DAGs") = Cardinality(WorkflowsOf(Get(rows[i], "")))
                  /\ \A t \in TypeNames :
                        GetOr(rows[i], t, 0) = TaskCount(Get(rows[i], ""), t)
            /\ Get(totals, "") = "Totals"
            /\ Keys(totals) = {"", "DAGs"} \cup TypeNames \/ dags = <<>>
            /\ \A key \in Keys(totals) \ {""} : Get(totals, key) = ColumnSum(rows, key)

\* The last thing printed is the totals row: a dict for json, a line of
\* cells for csv and md.
HasTotalsRow(output_fmt, out) ==
    /\ out # <<>>
    /\ IF output_fmt = "json" THEN Get(out[Len(out)], "") = "Totals"
       ELSE out[Len(out)][1] = "Totals"

\* C15: every call of analyze, in each of its output formats and whatever
\* the project holds (no workflow included), leaves all collections as they
\* were, completes without raising, and prints a summary whose last row is
\* the totals row.
C15_AnalyzeOnlyReads ==
    [][(nops' # nops /\ last'.op = "analyze") =>
          /\ UNCHANGED Collections
          /\ last'.err = "ok"
          /\ HasTotalsRow(other'.value, ret'[1])]_vars

\* C16: every render leaves the collections of the project as they were, and
\* rendering the project once more into the output directory as that render
\* left it gives the same files with the same contents, the same directories
\* and the same outcome (also when the render failed part way).
C16_RenderIsIdempotent ==
    [][(nops' # nops /\ last'.op = "render") =>
          /\ UNCHANGED Collections
          /\ LET again == render(Project(Self), [files |-> files', dirs |-> dirs', err |-> "ok"])
             IN  /\ again.files = files'
                 /\ again.dirs = dirs'
                 /\ again.err = last'.err]_vars

\* A render that wrote a workflow file, both manifests and the settings.
C16_Witness ==
    /\ last = [op |-> "render", err |-> "ok", noop |-> FALSE]
    /\ {<<"requirements.txt">>, <<"packages.txt">>, <<"airflow_settings.yaml">>,
        <<"dags", "b.py">>} \subseteq DOMAIN files

\* C17: add_dags returns, or raises the ValidationError of its argument, or,
\* for a workflow nested deeper than the walker's depth bound, raises the
\* walker's own StructuralError; no call ends because the interpreter ran
\* out of stack below the walker.
C17_DepthBoundRaisesStructuralError ==
    last.op = "add_dags" => last.err \in {"ok", "ValidationError", "StructuralError"}

\* The number of objects of a tree of objects: the object, the values of its
\* attributes, the items of its lists, sets and dicts, and so on below them.
RECURSIVE Size(_)
RECURSIVE SizeAll(_)
Size(v) ==
    1 + (IF v.type \in {"list", "set", "dict"} THEN SizeAll(v.items)
         ELSE IF "dict" \in DOMAIN v THEN SizeAll(DictValues(v))
         ELSE 0)
SizeAll(xs) == IF xs = <<>> THEN 0 ELSE Size(Head(xs)) + SizeAll(Tail(xs))

Primitives == {"str", "NoneType", "list", "set", "dict"}

\* C18: wherever add_dags can still be called, and for every workflow (a
\* finite tree of objects), the walker ends after taking at most as many
\* things from the collections it iterates as the workflow has objects; it
\* probes no str for attributes, and makes no nested call for a str or a
\* primitive; for the workflows within the interpreter's depth the call
\* returns.
C18_WalkTerminates ==
    nops < MaxOps =>
        \A dag \in Workflows \cup DeepWorkflows :
            LET r == add_dags(Self, dag)
            IN  /\ r.trace.visits <= Size(dag)
                /\ "str" \notin r.trace.probed
                /\ r.trace.descended \cap Primitives = {}
                /\ dag \in Workflows => r.err = "ok" /\ r.depth = 0

\* add_dags walked the workflow with two nested TaskGroups to its end.
C18_Witness ==
    /\ last = [op |-> "add_dags", err |-> "ok", noop |-> FALSE]
    /\ hist.walked = {W3}
    /\ Keys(variables) = {"v1"} /\ Keys(env_vars) = {"E1"} /\ Keys(pools) = {"p2"}

\* The number of objects of a tree of objects that reference, by their
\* attribute orbiter_pool, a pool named n.
RECURSIVE PoolRefs(_, _)
RECURSIVE PoolRefsAll(_, _)
PoolRefs(v, n) ==
    (IF Has(v, "orbiter_pool") /\ getattr(v, "orbiter_pool").name = n THEN 1 ELSE 0)
    + (IF v.type \in {"list", "set", "dict"} THEN PoolRefsAll(v.items, n)
       ELSE IF "dict" \in DOMAIN v THEN PoolRefsAll(DictValues(v), n)
       ELSE 0)
PoolRefsAll(xs, n) ==
    IF xs = <<>> THEN 0 ELSE PoolRefs(Head(xs), n) + PoolRefsAll(Tail(xs), n)

PoolNames == {p.name : p \in Pools}

\* C19: wherever add_dags can still be called, and for every workflow, the
\* call passes a pool to add_pools once per object that references it - once
\* for a pool that a single task references, at whatever depth of task
\* groups - and never a pool that nothing references; afterwards pools holds
\* each name once, and a pool that was not there before is stored as the task
\* references it.
C19_EachPoolPassedOnce ==
    nops < MaxOps =>
        \A dag \in Workflows :
            LET r == add_dags(Self, dag)
            IN  /\ DOMAIN r.trace.pool_passes = {n \in PoolNames : PoolRefs(dag, n) > 0}
                /\ \A n \in DOMAIN r.trace.pool_passes :
                      r.trace.pool_passes[n] = PoolRefs(dag, n)
                /\ Cardinality(Keys(r.pools)) = Len(r.pools)
                /\ \A n \in DOMAIN r.trace.pool_passes :
                      n \notin Keys(pools) =>
                          \E p \in Pools : p.name = n /\ Get(r.pools, n) = p
                                           /\ r.hist.pool_slots[n] = p.slots

\* add_dags of the workflow whose task t3b, two task groups down, references
\* pool p2: add_pools ran for p2 once.
C19_Witness ==
    /\ last.op = "add_dags" /\ last.err = "ok"
    /\ W3 \in hist.walked
    /\ PoolRefs(W3, "p2") = 1
    /\ pools = <<[k |-> "p2", v |-> p2x2]>>
    /\ hist.pool_slots = ("p2" :> 2)

\* The steps of add_dags for the workflows ds, given the ids already there.
RECURSIVE StepsFor(_, _)
StepsFor(ids, ds) ==
    IF ds = <<>> THEN <<>>
    ELSE LET id == dag_id(Head(ds))
         IN  <<<<id, IF id \in ids THEN "merge" ELSE "insert">>,
               <<id, "walk tasks">>, <<id, "walk dag">>>>
             \o StepsFor(ids \cup {id}, Tail(ds))

\* The entities held below the tasks of a workflow, and those held below its
\* other attributes.
TaskLevel(dag) == Reachable(getattr(dag, "tasks"))
DagLevel(dag) ==
    UNION {Reachable(dag.dict[i].value) : i \in {j \in DOMAIN dag.dict : dag.dict[j].name # "tasks"}}

KeyOf(e) ==
    CASE e.type = "OrbiterConnection" -> <<e.type, e.conn_id>>
      [] e.type = "OrbiterVariable" -> <<e.type, e.key>>
      [] e.type = "OrbiterEnvVar" -> <<e.type, e.key>>
      [] e.type = "OrbiterInclude" -> <<e.type, e.filepath>>
      [] OTHER -> <<e.type, e>>

StoredIn(r, e) ==
    CASE e.type = "OrbiterConnection" -> Get(r.connections, e.conn_id) = e
      [] e.type = "OrbiterVariable" -> Get(r.variables, e.key) = e
      [] e.type = "OrbiterEnvVar" -> Get(r.env_vars, e.key) = e
      [] e.type = "OrbiterInclude" -> Get(r.includes, e.filepath) = e

Batch == {W1, W3, W4}

\* C20: wherever add_dags can still be called, a call with the batch [x, y]
\* takes x, then y, and for each does, in this order: merge it into the
\* workflow of its id (if the project or the batch so far has one) or insert
\* it, walk its tasks, walk the workflow object; the workflow stored under
\* the id is the merge, or the workflow itself if its id was new; and where a
\* connection, variable, env var or include held by a task has the key of
\* one held by the workflow itself, the workflow's is the one stored after
\* the call with that workflow.
C20_MergeThenTasksThenWorkflow ==
    nops < MaxOps =>
        /\ \A x \in Batch, y \in Batch :
              LET r == add_dags(Self, List(<<x, y>>))
                  r1 == add_dags(Self, x)
              IN  /\ r.err = "ok"
                  /\ r.trace.steps = StepsFor(Keys(dags), <<x, y>>)
                  /\ Get(r1.dags, dag_id(x)) =
                         IF dag_id(x) \in Keys(dags) THEN DagAdd(Get(dags, dag_id(x)), x) ELSE x
                  /\ Get(r.dags, dag_id(y)) =
                         IF dag_id(y) \in Keys(r1.dags) THEN DagAdd(Get(r1.dags, dag_id(y)), y)
                         ELSE y
        /\ \A dag \in Workflows :
              LET r == add_dags(Self, dag)
              IN  \A e \in DagLevel(dag) :
                      (e.type # "OrbiterRequirement"
                       /\ \E t \in TaskLevel(dag) : KeyOf(t) = KeyOf(e) /\ t # e)
                          => StoredIn(r, e)

\* add_dags of the workflow whose task references c1 (generic) and which
\* itself references c1 (smtp): the task's was stored, then written over.
C20_Witness ==
    /\ last = [op |-> "add_dags", err |-> "ok", noop |-> FALSE]
    /\ hist.walked = {W4}
    /\ c1 \in TaskLevel(W4) /\ c1smtp \in DagLevel(W4)
    /\ c1 \in hist.replaced
    /\ Get(connections, "c1") = c1smtp

\* The projects with pools that a project is combined with: those of Others,
\* and one whose workflow references pool p1 with 2 slots while its pools
\* hold p1 with 3.
PoolOthers ==
    {q \in Others : q.pools # <<>>}
        \cup {Project(add_pools(add_dags(NewProject, W1), p1x3))}

\* C21: wherever + can still be called, for the project p of the state and
\* every project q that has pools, p + q returns and then holds, under every
\* pool name n of q, q's pool n if p had no pool n, and otherwise the one merge
\* of p's pool n with q's pool n - also when a task of a workflow of q
\* references a pool n, which the walker of add_dags adds before add_pools
\* adds q's.
C21_PlusMergesEachPoolOnce ==
    nops < MaxOps =>
        \A q \in PoolOthers :
            LET p == Project(Self)
                pq == Plus(p, q)
            IN  /\ pq.err = "ok"
                /\ \A n \in Keys(q.pools) :
                      Get(pq.pools, n) = IF n \in Keys(p.pools)
                                         THEN PoolAdd(Get(p.pools, n), Get(q.pools, n))
                                         ELSE Get(q.pools, n)

\* p, holding pool p1 with 3 slots, + q, whose workflow has a task that
\* references pool p1 with 2 slots: add_pools ran for p1 twice (the walker's,
\* then q's pools), and p1 is as after one merge.
C21_Witness ==
    /\ last = [op |-> "__add__", err |-> "ok", noop |-> FALSE]
    /\ W1 \in hist.walked
    /\ hist.pool_slots = ("p1" :> 7)
    /\ pools = <<[k |-> "p1", v |-> PoolAdd(p1x3, p1x2)]>>

\* Every entry of d is stored under the identity id(entity) of its entity,
\* and no key has two entries.
KeyedBy(d, id(_)) ==
    /\ \A i \in DOMAIN d : id(d[i].v) = d[i].k
    /\ Cardinality(Keys(d)) = Len(d)

\* C22: in every reachable state each keyed collection holds every entity
\* under its own identity (dag_id, name, conn_id, key, key, filepath), each
\* key once, and dags has exactly one entry per distinct workflow id ever
\* added: a workflow whose id is there already is merged into that entry.
C22_KeysAreIdentities ==
    /\ KeyedBy(dags, dag_id)
    /\ KeyedBy(pools, LAMBDA e : e.name)
    /\ KeyedBy(connections, LAMBDA e : e.conn_id)
    /\ KeyedBy(variables, LAMBDA e : e.key)
    /\ KeyedBy(env_vars, LAMBDA e : e.key)
    /\ KeyedBy(includes, LAMBDA e : e.filepath)
    /\ Keys(dags) = hist.dag_ids
    /\ Len(dags) = Cardinality(hist.dag_ids)

\* Two workflows with the id d1 were added: dags holds one entry d1, the
\* merge of the two, with the tasks of both.
C22_Witness ==
    /\ hist.walked = {W1, W3}
    /\ hist.dag_ids = {"d1"}
    /\ Len(dags) = 1
    /\ dags[1].v \in {DagAdd(W1, W3), DagAdd(W3, W1)}
    /\ Len(TasksOf(dags[1].v)) = 2

\* C23: every comparison self == other returns a boolean without raising,
\* and returns False when one of the two projects has a workflow id that the
\* other lacks.
C23_EqualityIsTotal ==
    last.op = "__eq__" =>
        /\ last.err = "ok"
        /\ ret \in {<<TRUE>>, <<FALSE>>}
        /\ Keys(dags) # Keys(other.dags) => ret = <<FALSE>>

====
